---- MODULE Spec2Model ----
(***************************************************************************)
(* endurance-metrics: the data pipeline of the Strava dashboard.           *)
(*                                                                         *)
(* The model follows one Streamlit session that calls load_activities      *)
(* again and again.  A load runs in steps: every exchange with the         *)
(* upstream service (the token endpoint, one page of /athlete/activities)  *)
(* is one step, because the answer is the environment's choice.            *)
(* Everything the code does between two exchanges belongs to the step      *)
(* that receives the answer.                                               *)
(*                                                                         *)
(* Time is counted in whole minutes on a clock whose origin is the present *)
(* moment: datetime.now() reads 0, and when time passes every stored       *)
(* instant moves into the past by as much.  An instant so far in the past  *)
(* that no comparison of the code can tell it from a later one stays where *)
(* it is.                                                                  *)
(***************************************************************************)
EXTENDS Integers, Sequences, FiniteSets, TLC

(***************************************************************************)
(* Bounds of the model.                                                    *)
(***************************************************************************)
\* The upstream account holds at most this many activities.
MaxActivities == 4
\* start_date_local of an activity is one of 1..MaxStart.
MaxStart == 2
\* config.activities_per_page is 200; the model pages in this size.
activities_per_page == 2
\* Minutes that pass at once while a fetch is running.
FetchStep == 1
\* Minutes that pass at once between two loads.
IdleStep == 30
\* A refreshed token expires at most this many minutes after the refresh
\* margin has been reached.
MaxTokenSlack == 1

(***************************************************************************)
(* Program constants.                                                      *)
(***************************************************************************)
\* timedelta(minutes=5) in _get_access_token.
RefreshMarginMin == 5
\* ttl=3600 seconds of st.cache_data on fetch_activities_from_api.
CacheTtlMin == 60

VARIABLES
    account,           \* upstream: the athlete's activities, in listing order
    cache_file,        \* the parquet file at config.cache_path
    memo,              \* the st.cache_data entry of fetch_activities_from_api
    pc,                \* where the running load_activities call stands
    force_refresh,     \* the argument of the running or last load
    access_token,      \* StravaClient._access_token
    token_expires_at,  \* StravaClient._token_expires_at
    page,              \* fetch_all_activities: page
    all_activities,    \* fetch_all_activities: all_activities
    fetch_status,      \* what became of fetch_all_activities in this load
    requests,          \* the upstream requests of this load, in order
    cache_at_call,     \* cache_file when the load was called
    memo_at_call,      \* memo when the load was called
    outcome,           \* how the load ended
    progress_calls,    \* the calls of progress_callback of this load, in order
    call,              \* analysis: the function called and its arguments
    result,            \* analysis: what the call returned
    session_state,     \* st.session_state of the browser session
    script             \* where the run of the page script stands

vars == <<account, cache_file, memo, pc, force_refresh, access_token,
          token_expires_at, page, all_activities, fetch_status, requests,
          cache_at_call, memo_at_call, outcome, progress_calls, call, result,
          session_state, script>>

\* The variables of the functions that work on a loaded table.
analysis_vars == <<call, result>>

\* The variables of a page of the dashboard.
session_vars == <<session_state, script>>

(***************************************************************************)
(* Values.                                                                 *)
(***************************************************************************)
None == [some |-> FALSE]
Some(x) == [some |-> TRUE, val |-> x]

\* None, as the value of _access_token and of _token_expires_at.
NoToken == 0
NoTime == -1

\* datetime.now() / the timer of st.cache_data.
now == 0

Min(a, b) == IF a < b THEN a ELSE b

(***************************************************************************)
(* Numbers.  A float of the program is modelled by the exact fraction it   *)
(* approximates, in lowest terms with a positive denominator, so that two  *)
(* fractions are the same number exactly when they are the same record.    *)
(***************************************************************************)
Abs(x) == IF x < 0 THEN -x ELSE x

RECURSIVE Gcd(_, _)
Gcd(a, b) == IF b = 0 THEN a ELSE Gcd(b, a % b)

\* n / d, for d # 0.
Rat(n, d) ==
    LET g == Gcd(Abs(n), Abs(d))
        sgn == IF d < 0 THEN -1 ELSE 1
    IN  [num |-> sgn * (n \div g), den |-> sgn * (d \div g)]

Zero == Rat(0, 1)
RatAdd(x, y) == Rat(x.num * y.den + y.num * x.den, x.den * y.den)
RatSub(x, y) == Rat(x.num * y.den - y.num * x.den, x.den * y.den)
RatMul(x, y) == Rat(x.num * y.num, x.den * y.den)
\* x / y, for y # 0.
RatDiv(x, y) == Rat(x.num * y.den, x.den * y.num)
RatLess(x, y) == x.num * y.den < y.num * x.den
RatLeq(x, y) == x.num * y.den <= y.num * x.den

(***************************************************************************)
(* Timestamps.  A timestamp is the number of its day, counted from Monday  *)
(* 2018-01-01 as day 0; the time of day is left out.  The operators below  *)
(* are the fields and formats of pandas the program reads from one.        *)
(***************************************************************************)
\* The year of day 0.
EpochYear == 2018

is_leap_year(y) == (y % 4 = 0 /\ y % 100 # 0) \/ y % 400 = 0
days_in_year(y) == IF is_leap_year(y) THEN 366 ELSE 365
days_in_month(y, m) ==
    IF m = 2 THEN (IF is_leap_year(y) THEN 29 ELSE 28)
    ELSE IF m \in {4, 6, 9, 11} THEN 30 ELSE 31

\* The year of the day that lies d days after 1 January of year y, and the
\* number of days between 1 January of that year and the day.
RECURSIVE YearAndDay(_, _)
YearAndDay(d, y) ==
    IF d < days_in_year(y) THEN [year |-> y, yday |-> d]
    ELSE YearAndDay(d - days_in_year(y), y + 1)

\* The month and the day of the month of the day that lies d days after the
\* first day of month m of year y.
RECURSIVE MonthAndDay(_, _, _)
MonthAndDay(d, y, m) ==
    IF d < days_in_month(y, m) THEN [month |-> m, day |-> d + 1]
    ELSE MonthAndDay(d - days_in_month(y, m), y, m + 1)

\* Timestamp.year, .month, .day, .weekday() (Monday is 0).
dt_year(t) == YearAndDay(t, EpochYear).year
dt_dayofyear(t) == YearAndDay(t, EpochYear).yday + 1
dt_month(t) == MonthAndDay(YearAndDay(t, EpochYear).yday, dt_year(t), 1).month
dt_day(t) == MonthAndDay(YearAndDay(t, EpochYear).yday, dt_year(t), 1).day
dt_weekday(t) == t % 7

\* The Monday of the week of a day.
MondayOf(t) == t - dt_weekday(t)

\* strftime("%W"): the week of the year, weeks starting on Monday; the
\* days before the first Monday of the year are in week 0.
strftime_W(t) == (dt_dayofyear(t) + 6 - dt_weekday(t)) \div 7

\* strftime("%V") and isocalendar().week: the ISO 8601 week, which is the
\* week of the year of its Thursday.
strftime_V(t) == (dt_dayofyear(t - dt_weekday(t) + 3) - 1) \div 7 + 1
isocalendar_week(t) == strftime_V(t)

\* strftime("%b %d"): month and day of the month.
strftime_b_d(t) == <<dt_month(t), dt_day(t)>>

\* strftime("%Y-%m").
strftime_Y_m(t) == <<dt_year(t), dt_month(t)>>

\* strftime("%Y-W%W"): the text "<year>-W<week>".
strftime_Y_W(t) == <<dt_year(t), "-W", strftime_W(t)>>

\* A raw activity of the API, reduced to the fields the pipeline orders and
\* identifies rows by.
RawActivity(i, s) == [id |-> i, start_date_local |-> s]

\* A raw activity of the API with the fields the analysis reads: distance
\* in metres, moving_time in seconds, total_elevation_gain in metres.
Activity(i, s, type, distance, moving_time, total_elevation_gain) ==
    [id |-> i, start_date_local |-> s, type |-> type, distance |-> distance,
     moving_time |-> moving_time,
     total_elevation_gain |-> total_elevation_gain]

\* The accounts the upstream may hold: n activities with identifiers 1..n,
\* listed newest first as the upstream lists them; activities may share a
\* start date.
Accounts ==
    UNION { { [k \in 1..n |-> RawActivity(k, f[k])] :
                f \in { g \in [1..n -> 1..MaxStart] :
                            \A k \in 1..n : k < n => g[k] >= g[k + 1] } }
            : n \in 0..MaxActivities }

\* GET /athlete/activities?page=&per_page= : the slice of the listing.
get_activities(acct, p, per_page) ==
    SubSeq(acct, (p - 1) * per_page + 1, Min(p * per_page, Len(acct)))

(***************************************************************************)
(* normalize_activities: one row per raw activity, sorted by datetime      *)
(* descending.  Rows with equal datetime keep their input order.           *)
(***************************************************************************)
\* The row of a reduced raw activity is reduced likewise.  The columns
\* name, avg_hr, suffer_score and power, which nothing reads back, are left
\* out.
Row(a) ==
    LET dt == a.start_date_local IN
    IF "distance" \notin DOMAIN a
    THEN [activity_id |-> a.id, datetime |-> dt]
    ELSE [activity_id  |-> a.id,
          datetime     |-> dt,
          date         |-> dt,
          sport        |-> a.type,
          distance_km  |-> Rat(a.distance, 1000),
          duration_min |-> Rat(a.moving_time, 60),
          elevation_m  |-> Rat(a.total_elevation_gain, 1),
          year         |-> dt_year(dt),
          iso_week     |-> isocalendar_week(dt),
          year_week    |-> strftime_Y_W(dt),
          month        |-> strftime_Y_m(dt)]

RECURSIVE InsertDesc(_, _)
InsertDesc(sorted, r) ==
    IF sorted = <<>> THEN <<r>>
    ELSE IF Head(sorted).datetime >= r.datetime
         THEN <<Head(sorted)>> \o InsertDesc(Tail(sorted), r)
         ELSE <<r>> \o sorted

RECURSIVE sort_values_desc(_)
sort_values_desc(rows) ==
    IF rows = <<>> THEN <<>>
    ELSE InsertDesc(sort_values_desc(SubSeq(rows, 1, Len(rows) - 1)),
                    rows[Len(rows)])

EmptyDataFrame == <<>>

\* The rows in the order of the batch, the final sort left out.
normalize_activities_unsorted(raw_activities) ==
    IF raw_activities = <<>> THEN EmptyDataFrame
    ELSE [k \in 1..Len(raw_activities) |-> Row(raw_activities[k])]

normalize_activities(raw_activities) ==
    IF raw_activities = <<>> THEN EmptyDataFrame
    ELSE sort_values_desc([k \in 1..Len(raw_activities) |-> Row(raw_activities[k])])

(***************************************************************************)
(* The cache store.                                                        *)
(***************************************************************************)
\* A parquet file keeps a table by columns: the values of every column, in
\* the order of the rows, and the number of rows.  A table without rows is
\* pd.DataFrame(), which has no column.
to_parquet(df) ==
    LET columns == IF df = <<>> THEN {} ELSE DOMAIN df[1] IN
    [format   |-> "parquet",
     columns  |-> [c \in columns |-> [i \in 1..Len(df) |-> df[i][c]]],
     num_rows |-> Len(df)]

\* pd.read_parquet: row i is made of the i-th value of every column.
read_parquet(file) ==
    [i \in 1..file.num_rows |->
        [c \in DOMAIN file.columns |-> file.columns[c][i]]]

\* save_to_cache: the new content of the file at cache_path.
save_to_cache(df) == Some(to_parquet(df))

\* load_from_cache that never finds the file.
load_from_cache_miss(file) == None

\* load_from_cache: the table of the file, or None when there is no file.
load_from_cache(file) == IF file.some THEN Some(read_parquet(file.val)) ELSE None

(***************************************************************************)
(* The token manager.                                                      *)
(***************************************************************************)
\* The test with the margin's boundary on the wrong side.
token_is_valid_at_margin(token, expires_at, t) ==
    /\ token # NoToken
    /\ expires_at # NoTime
    /\ t <= expires_at - RefreshMarginMin

\* _get_access_token, the test that returns the held token without a refresh.
token_is_valid(token, expires_at, t) ==
    /\ token # NoToken
    /\ expires_at # NoTime
    /\ t < expires_at - RefreshMarginMin

\* What the token endpoint can answer to a refresh made at minute t.  Every
\* exchange that succeeds issues a token of its own: the k-th of a load
\* issues token k.
RefreshFailures == {"timeout", "401", "http_error"}
IssuedToken(reqs) ==
    1 + Cardinality({ i \in 1..Len(reqs) :
                        reqs[i].endpoint = "token" /\ reqs[i].status = "ok" })
TokenExpiries(t) == { t + RefreshMarginMin + s : s \in 0..MaxTokenSlack }

TokenRequest(status, token, expires_at) ==
    [endpoint |-> "token", status |-> status, access_token |-> token,
     expires_at |-> expires_at]

PageRequest(p, status, activities) ==
    [endpoint |-> "activities", page |-> p, status |-> status,
     activities |-> activities]

(***************************************************************************)
(* The memoization of fetch_activities_from_api (st.cache_data, ttl=3600): *)
(* one entry, because the only argument is excluded from the key.          *)
(***************************************************************************)
\* A memoization that never serves its entry.
memo_is_valid_never(m, t) == FALSE

\* The entry is served while it is younger than the ttl.
memo_is_valid(m, t) == m.some /\ t - m.val.stored < CacheTtlMin

\* A clear that leaves the entry in place.
cache_data_clear_nothing(m) == m

\* st.cache_data.clear()
cache_data_clear(m) == None

(***************************************************************************)
(* fetch_activities_from_api, after fetch_all_activities returned raw.     *)
(***************************************************************************)
\* The table the body returns.
fetch_result(raw) ==
    IF raw = <<>> THEN EmptyDataFrame
    ELSE normalize_activities(raw)

\* The body keeping a cache file that exists instead of overwriting it.
cache_after_fetch_keeps(raw, file) ==
    IF raw = <<>> THEN file
    ELSE IF file.some THEN file
    ELSE save_to_cache(normalize_activities(raw))

\* The body saving whatever table it made, an empty one too.
cache_after_fetch_saves_empty(raw, file) ==
    save_to_cache(normalize_activities(raw))

\* The cache file the body leaves behind.
cache_after_fetch(raw, file) ==
    LET df == normalize_activities(raw) IN
    IF raw = <<>> THEN file
    ELSE IF df = EmptyDataFrame THEN file
    ELSE save_to_cache(df)

\* load_activities ends: its StravaClient goes with it.
ClientDropped ==
    /\ access_token' = NoToken
    /\ token_expires_at' = NoTime

\* No function of the analysis is being called.
NoCall == [fn |-> "none"]
NoResult == [kind |-> "none"]

Table(df) == [kind |-> "table", table |-> df]
Stopped == [kind |-> "stopped"]
Running == [kind |-> "running"]
NotCalled == [kind |-> "none"]

\* fetch_all_activities returned raw: the rest of fetch_activities_from_api
\* runs, st.cache_data stores its return value, load_activities returns it.
FetchReturns(raw) ==
    /\ all_activities' = raw
    /\ fetch_status' = "returned"
    /\ cache_file' = cache_after_fetch(raw, cache_file)
    /\ LET df == fetch_result(raw) IN
       /\ memo' = Some([val |-> df, stored |-> now])
       /\ outcome' = Table(df)
    /\ ClientDropped
    /\ pc' = "idle"

\* The handler without its fallback to the cache.
rate_limit_outcome_no_fallback(force, file) == Stopped

\* The handler returning an empty table where it should stop the run.
rate_limit_outcome_no_stop(force, file) ==
    IF force /\ load_from_cache(file).some
    THEN Table(load_from_cache(file).val)
    ELSE Table(EmptyDataFrame)

\* load_activities, the handlers of StravaRateLimitError.
rate_limit_outcome(force, file) ==
    LET cached_df == load_from_cache(file) IN
    IF force
    THEN IF cached_df.some
         THEN Table(cached_df.val)
         ELSE Stopped
    ELSE Stopped

\* The rate-limit error handled like any other API error: the loop breaks
\* and the records accumulated so far are returned.
FetchSwallowsRateLimit == FetchReturns(all_activities)

\* fetch_all_activities raised StravaRateLimitError: the exception leaves
\* fetch_activities_from_api (nothing is memoized) and load_activities
\* handles it.
FetchRaisesRateLimit ==
    /\ all_activities' = <<>>
    /\ fetch_status' = "rate_limited"
    /\ outcome' = rate_limit_outcome(force_refresh, cache_file)
    /\ ClientDropped
    /\ pc' = "idle"
    /\ UNCHANGED <<cache_file, memo>>

\* The body of fetch_activities_from_api starts: fetch_all_activities
\* initialises its locals and calls get_activities for page 1.
FetchBodyStarts ==
    /\ page' = 1
    /\ all_activities' = <<>>
    /\ fetch_status' = "running"
    /\ outcome' = Running
    /\ pc' = "token"

(***************************************************************************)
(* load_activities(config, force_refresh), up to its first exchange with   *)
(* the upstream service, or to its return when there is none.              *)
(***************************************************************************)
load_activities(force) ==
    /\ pc = "idle"
    /\ force_refresh' = force
    /\ cache_at_call' = cache_file
    /\ memo_at_call' = memo
    /\ access_token' = NoToken
    /\ token_expires_at' = NoTime
    /\ requests' = <<>>
    /\ progress_calls' = <<>>
    /\ IF force
       THEN /\ memo' = cache_data_clear(memo)
            /\ IF memo_is_valid(cache_data_clear(memo), now)
               THEN /\ outcome' = Table(cache_data_clear(memo).val.val)
                    /\ fetch_status' = "memoized"
                    /\ pc' = "idle"
                    /\ UNCHANGED <<page, all_activities>>
               ELSE FetchBodyStarts
            /\ UNCHANGED cache_file
       ELSE LET cached_df == load_from_cache(cache_file) IN
            IF cached_df.some
            THEN /\ outcome' = Table(cached_df.val)
                 /\ fetch_status' = "not_called"
                 /\ pc' = "idle"
                 /\ UNCHANGED <<cache_file, memo, page, all_activities>>
            ELSE /\ IF memo_is_valid(memo, now)
                    THEN /\ outcome' = Table(memo.val.val)
                         /\ fetch_status' = "memoized"
                         /\ pc' = "idle"
                         /\ UNCHANGED <<page, all_activities>>
                    ELSE FetchBodyStarts
                 /\ UNCHANGED <<cache_file, memo>>
    /\ UNCHANGED <<account, analysis_vars>>

(***************************************************************************)
(* _get_access_token, called by _make_request for the current page.        *)
(***************************************************************************)
\* The held token is returned; the request for the page follows.
get_access_token_held ==
    /\ pc = "token"
    /\ token_is_valid(access_token, token_expires_at, now)
    /\ pc' = "get"
    /\ UNCHANGED <<account, cache_file, memo, force_refresh, access_token,
                   token_expires_at, page, all_activities, fetch_status,
                   requests, cache_at_call, memo_at_call, outcome,
                   progress_calls, analysis_vars, session_vars>>

\* The refresh exchange succeeds.
refresh_token_ok(token, expires_at) ==
    /\ pc = "token"
    /\ ~token_is_valid(access_token, token_expires_at, now)
    /\ requests' = Append(requests, TokenRequest("ok", token, expires_at))
    /\ access_token' = token
    /\ token_expires_at' = expires_at
    /\ pc' = "get"
    /\ UNCHANGED <<account, cache_file, memo, force_refresh, page,
                   all_activities, fetch_status, cache_at_call, memo_at_call,
                   outcome, progress_calls, analysis_vars, session_vars>>

\* The refresh exchange fails: _get_access_token raises StravaAPIError
\* inside the try block of fetch_all_activities, whose handler breaks out
\* of the loop.
refresh_token_fails(status) ==
    /\ pc = "token"
    /\ ~token_is_valid(access_token, token_expires_at, now)
    /\ requests' = Append(requests, TokenRequest(status, NoToken, NoTime))
    /\ FetchReturns(all_activities)
    /\ UNCHANGED <<account, force_refresh, page, cache_at_call, memo_at_call,
                   progress_calls, analysis_vars, session_vars>>

(***************************************************************************)
(* _make_request for the current page of fetch_all_activities.             *)
(***************************************************************************)
PageFailures == {"timeout", "http_error"}

\* The loop without its increment.
next_page_stuck(p) == p

\* page += 1
next_page(p) == p + 1

\* The progress callback given the count of the page instead of the total.
progress_after_page_count(calls, p, accumulated, activities) ==
    IF activities = <<>> THEN calls
    ELSE Append(calls, <<p, Len(activities)>>)

\* progress_callback(page, len(all_activities)), which follows the extend
\* and so is not reached for a page without records.
progress_after(calls, p, accumulated, activities) ==
    IF activities = <<>> THEN calls
    ELSE Append(calls, <<p, Len(accumulated \o activities)>>)

\* The page arrives.
get_activities_ok ==
    /\ pc = "get"
    /\ LET activities == get_activities(account, page, activities_per_page) IN
       /\ requests' = Append(requests, PageRequest(page, "ok", activities))
       /\ progress_calls' = progress_after(progress_calls, page,
                                            all_activities, activities)
       /\ IF activities = <<>>
          THEN FetchReturns(all_activities) /\ UNCHANGED page
          ELSE IF Len(activities) < activities_per_page
               THEN FetchReturns(all_activities \o activities) /\ UNCHANGED page
               ELSE /\ all_activities' = all_activities \o activities
                    /\ page' = next_page(page)
                    /\ pc' = "token"
                    /\ UNCHANGED <<cache_file, memo, fetch_status, outcome,
                                   access_token, token_expires_at>>
    /\ UNCHANGED <<account, force_refresh, cache_at_call, memo_at_call,
                   analysis_vars, session_vars>>

\* HTTP 429: StravaRateLimitError, re-raised by fetch_all_activities.
get_activities_rate_limited ==
    /\ pc = "get"
    /\ requests' = Append(requests, PageRequest(page, "429", <<>>))
    /\ FetchRaisesRateLimit
    /\ UNCHANGED <<account, force_refresh, page, cache_at_call, memo_at_call,
                   progress_calls, analysis_vars, session_vars>>

\* The failure of a page throwing away the pages before it.
get_activities_fails_discards(status) ==
    /\ pc = "get"
    /\ requests' = Append(requests, PageRequest(page, status, <<>>))
    /\ FetchReturns(<<>>)
    /\ UNCHANGED <<account, force_refresh, page, cache_at_call, memo_at_call,
                   progress_calls, analysis_vars, session_vars>>

\* A timeout or another failure: StravaAPIError, fetch_all_activities warns
\* and breaks out of the loop.
get_activities_fails(status) ==
    /\ pc = "get"
    /\ requests' = Append(requests, PageRequest(page, status, <<>>))
    /\ FetchReturns(all_activities)
    /\ UNCHANGED <<account, force_refresh, page, cache_at_call, memo_at_call,
                   progress_calls, analysis_vars, session_vars>>

(***************************************************************************)
(* Time passes: every stored instant moves d minutes into the past.        *)
(***************************************************************************)
Max(a, b) == IF a > b THEN a ELSE b

\* An expiry that has come is told from no earlier one by _get_access_token.
ShiftExpiry(expires_at, d) ==
    IF expires_at = NoTime THEN NoTime ELSE Max(expires_at - d, now)

\* An entry as old as the ttl is told from no older one by st.cache_data.
ShiftMemo(m, d) ==
    IF m.some
    THEN Some([val |-> m.val.val, stored |-> Max(m.val.stored - d, now - CacheTtlMin)])
    ELSE m

\* A request or the pause between two pages takes its time.
TickFetching ==
    /\ pc # "idle"
    /\ token_expires_at' = ShiftExpiry(token_expires_at, FetchStep)
    /\ memo' = ShiftMemo(memo, FetchStep)
    /\ <<token_expires_at', memo'>> # <<token_expires_at, memo>>
    /\ UNCHANGED <<account, cache_file, pc, force_refresh, access_token,
                   page, all_activities, fetch_status, requests,
                   cache_at_call, memo_at_call, outcome, progress_calls,
                   analysis_vars, session_vars>>

\* The user waits before the next load.
TickIdle ==
    /\ pc = "idle"
    /\ memo' = ShiftMemo(memo, IdleStep)
    /\ memo' # memo
    /\ UNCHANGED <<account, cache_file, pc, force_refresh, access_token,
                   token_expires_at, page, all_activities, fetch_status,
                   requests, cache_at_call, memo_at_call, outcome,
                   progress_calls, analysis_vars, session_vars>>

(***************************************************************************)
(* The session.                                                            *)
(***************************************************************************)
\* The browser session has just been opened: st.session_state holds no
\* force_refresh key and no page script has run.
NoPageRun ==
    /\ session_state = [force_refresh |-> None]
    /\ script = "none"

Init ==
    /\ account \in Accounts
    /\ cache_file = None
    /\ memo = None
    /\ pc = "idle"
    /\ force_refresh = FALSE
    /\ access_token = NoToken
    /\ token_expires_at = NoTime
    /\ page = 1
    /\ all_activities = <<>>
    /\ fetch_status = "not_called"
    /\ requests = <<>>
    /\ cache_at_call = None
    /\ memo_at_call = None
    /\ outcome = NotCalled
    /\ progress_calls = <<>>
    /\ call = NoCall
    /\ result = NoResult
    /\ NoPageRun

Next ==
    \/ \E force \in BOOLEAN : load_activities(force) /\ UNCHANGED session_vars
    \/ get_access_token_held
    \/ \E expires_at \in TokenExpiries(now) :
           refresh_token_ok(IssuedToken(requests), expires_at)
    \/ \E status \in RefreshFailures : refresh_token_fails(status)
    \/ get_activities_ok
    \/ get_activities_rate_limited
    \/ \E status \in PageFailures : get_activities_fails(status)
    \/ TickFetching
    \/ TickIdle

Spec == Init /\ [][Next]_vars

(***************************************************************************)
(* Properties.                                                             *)
(***************************************************************************)
\* A load has been called and has ended.
LoadEnded == pc = "idle" /\ outcome.kind # "none"

\* The requests of this load for a page, in order.
PageRequests == SelectSeq(requests, LAMBDA r : r.endpoint = "activities")
TokenRequests == SelectSeq(requests, LAMBDA r : r.endpoint = "token")

LastRequest == requests[Len(requests)]

\* The fetch of this load ended with HTTP 429 on a page.
RateLimited == LoadEnded /\ fetch_status = "rate_limited"

\* C1: a load with force_refresh=true whose fetch raised a rate-limit error
\* on any page returns, if a cache file existed, the cached table, and
\* leaves the cache file as it was.
C1_RateLimitFallsBackToCache ==
    (RateLimited /\ force_refresh /\ cache_at_call.some)
        => /\ outcome = Table(read_parquet(cache_at_call.val))
           /\ cache_file = cache_at_call

\* A forced load over an existing cache, rate-limited on page 2 of a fetch
\* of three pages.
C1_Witness ==
    /\ RateLimited /\ force_refresh /\ cache_at_call.some
    /\ Len(account) >= 2 * activities_per_page
    /\ LastRequest.page = 2
    /\ outcome.kind = "table"

\* C2: a load with force_refresh=false over an existing cache file returns
\* the cached table at once: no token refresh, no page request, no write of
\* the cache file.
C2_CacheWinsWhenNotForced ==
    /\ (pc # "idle" /\ ~force_refresh) => ~cache_at_call.some
    /\ (LoadEnded /\ ~force_refresh /\ cache_at_call.some)
          => /\ outcome = Table(read_parquet(cache_at_call.val))
             /\ requests = <<>>
             /\ fetch_status = "not_called"
             /\ cache_file = cache_at_call

\* A load that was not forced returned a cache that is older than the ttl
\* of the memoization.
C2_Witness ==
    /\ LoadEnded /\ ~force_refresh /\ cache_at_call.some
    /\ outcome.kind = "table" /\ outcome.table # EmptyDataFrame
    /\ memo_at_call.some /\ ~memo_is_valid(memo_at_call, now)

\* C3: a rate-limit error with no cache file, on either path, ends the load
\* in the terminal outcome RateLimitedNoCache: no table is returned and no
\* cache file is written.
C3_RateLimitedNoCacheStops ==
    (RateLimited /\ ~cache_at_call.some)
        => /\ outcome = Stopped
           /\ cache_file = None

\* A forced load without a cache, rate-limited after a first full page.
C3_Witness ==
    /\ RateLimited /\ ~cache_at_call.some /\ force_refresh
    /\ LastRequest.page = 2
    /\ outcome = Stopped

\* C4 as stated: every fetch that completes without a rate-limit error is
\* saved to the cache and returned; afterwards the cache file holds exactly
\* the table the load returned.
C4_AsStated ==
    (LoadEnded /\ fetch_status = "returned")
        => /\ outcome = Table(normalize_activities(all_activities))
           /\ cache_file = save_to_cache(outcome.table)

\* C4 as amended: every fetch that completes without a rate-limit error and
\* with at least one record is normalized, saved and returned, and the cache
\* file then holds exactly the table returned, whatever it held before; a
\* fetch that completes with no record returns an empty table and leaves
\* the cache file as it was.
C4_FetchReplacesCache ==
    (LoadEnded /\ fetch_status = "returned")
        => /\ outcome = Table(normalize_activities(all_activities))
           /\ IF all_activities # <<>>
              THEN /\ cache_file.some
                   /\ read_parquet(cache_file.val) = outcome.table
                   /\ load_from_cache(cache_file) = Some(outcome.table)
              ELSE /\ outcome.table = EmptyDataFrame
                   /\ cache_file = cache_at_call

\* A fetch cut short by a failure on page 2 replaced a longer cached table
\* by the rows of page 1.
C4_Witness ==
    /\ LoadEnded /\ fetch_status = "returned"
    /\ LastRequest.endpoint = "activities" /\ LastRequest.status \in PageFailures
    /\ LastRequest.page = 2
    /\ cache_at_call.some
    /\ Len(read_parquet(cache_at_call.val)) > Len(outcome.table)
    /\ cache_file = save_to_cache(outcome.table)

\* C5: a failure of the token refresh is fatal to the load: the load
\* returns no table, and the refresh is not retried within the load.
C5_RefreshFailureIsFatal ==
    (LoadEnded /\ requests # <<>> /\ LastRequest.endpoint = "token"
               /\ LastRequest.status \in RefreshFailures)
        => /\ outcome.kind # "table"
           /\ \A i \in 1..(Len(requests) - 1) :
                  ~(requests[i].endpoint = "token"
                    /\ requests[i].status \in RefreshFailures)

\* The records of a sequence of page requests, page after page.
RECURSIVE ConcatPages(_)
ConcatPages(reqs) ==
    IF reqs = <<>> THEN <<>>
    ELSE Head(reqs).activities \o ConcatPages(Tail(reqs))

NoRequestFailed == \A i \in 1..Len(requests) : requests[i].status = "ok"

\* C6: fetch_all requests the pages 1, 2, 3, ... in this order, each once,
\* and stops after the first page with no record or with fewer records than
\* the page size; when no request fails its result is the concatenation, in
\* page order, of the records of the pages requested.
C6_PagesInOrder ==
    /\ \A i \in 1..Len(PageRequests) : PageRequests[i].page = i
    /\ \A i \in 1..Len(PageRequests) :
          (PageRequests[i].status = "ok"
              /\ Len(PageRequests[i].activities) < activities_per_page)
             => (i = Len(PageRequests) /\ pc = "idle")
    /\ (LoadEnded /\ fetch_status = "returned" /\ NoRequestFailed)
          => /\ all_activities = ConcatPages(PageRequests)
             /\ Len(PageRequests[Len(PageRequests)].activities) < activities_per_page

\* A fetch of three pages, none failing, ended with the records of all.
C6_Witness ==
    /\ LoadEnded /\ fetch_status = "returned" /\ NoRequestFailed
    /\ Len(PageRequests) = 3
    /\ Len(all_activities) >= 2 * activities_per_page

\* C7: HTTP 429 on any page aborts fetch_all at once: the error reaches the
\* caller, no request follows it (no further page, no retry), and no record
\* of the earlier pages is returned, saved or memoized.
C7_RateLimitAborts ==
    \A i \in 1..Len(requests) :
        requests[i].status = "429"
           => /\ i = Len(requests)
              /\ pc = "idle"
              /\ fetch_status = "rate_limited"
              /\ outcome.kind = "table"
                    => (cache_at_call.some
                        /\ outcome.table = read_parquet(cache_at_call.val))
              /\ cache_file = cache_at_call
              /\ memo \in {None, memo_at_call}

\* HTTP 429 on page 2, after a page of records had been accumulated.
C7_Witness ==
    /\ LoadEnded /\ requests # <<>>
    /\ LastRequest.status = "429" /\ LastRequest.page = 2
    /\ PageRequests[1].activities # <<>>

C9_TokenReuseOrOneRefresh ==
    [][ (pc = "token" /\ pc' # "token")
          => IF /\ access_token # NoToken
                /\ token_expires_at # NoTime
                /\ token_expires_at - now > RefreshMarginMin
             THEN /\ requests' = requests
                  /\ access_token' = access_token
                  /\ token_expires_at' = token_expires_at
                  /\ pc' = "get"
             ELSE /\ Len(requests') = Len(requests) + 1
                  /\ SubSeq(requests', 1, Len(requests)) = requests
                  /\ requests'[Len(requests')].endpoint = "token"
                  /\ requests'[Len(requests')].status = "ok"
                        => /\ access_token' = requests'[Len(requests')].access_token
                           /\ token_expires_at' = requests'[Len(requests')].expires_at
                           /\ pc' = "get"
      ]_vars

\* The request for page 2 goes out with the token obtained for page 1,
\* which is still more than the margin away from its expiry.
C9_WitnessHeld ==
    /\ pc = "get" /\ page = 2
    /\ Len(TokenRequests) = 1
    /\ token_expires_at - now > RefreshMarginMin

\* C10: a load with force_refresh=true always contacts the upstream: the
\* memoized entry is dropped first, the fetch body runs and at least one
\* request is issued, whatever cache file and memoized entry exist.
C10_ForceRefreshContactsUpstream ==
    /\ (pc # "idle" /\ force_refresh) => fetch_status = "running"
    /\ (LoadEnded /\ force_refresh)
          => /\ fetch_status \in {"returned", "rate_limited"}
             /\ Len(requests) >= 1

\* A forced load ran its fetch although a cache file and a memoized entry
\* younger than the ttl existed when it was called.
C10_Witness ==
    /\ LoadEnded /\ force_refresh
    /\ cache_at_call.some
    /\ memo_is_valid(memo_at_call, now)
    /\ Len(requests) >= 1

(***************************************************************************)
(* The progress callback.                                                  *)
(***************************************************************************)
\* The page requests of this load that were answered, and those of them
\* that brought at least one record.
PagesFetched == SelectSeq(PageRequests, LAMBDA r : r.status = "ok")
PagesWithRecords == SelectSeq(PagesFetched, LAMBDA r : r.activities # <<>>)

\* C11 as stated: progress_sink(page_number, cumulative_count) is invoked
\* after each page fetched, in page order, with the number of records
\* accumulated up to and including that page; the number of invocations
\* equals the number of pages fetched successfully.
C11_AsStated ==
    /\ Len(progress_calls) = Len(PagesFetched)
    /\ \A i \in 1..Len(progress_calls) :
          progress_calls[i]
             = <<i, Len(ConcatPages(SubSeq(PagesFetched, 1, i)))>>

\* C11 as amended: progress_sink is invoked after each page fetched that
\* holds at least one record, in page order, with the number of records
\* accumulated up to and including that page; a page fetched without
\* records ends the fetch without an invocation, so the number of
\* invocations equals the number of pages fetched that held a record.
C11_ProgressAfterEachPageWithRecords ==
    /\ Len(progress_calls) = Len(PagesWithRecords)
    /\ Len(PagesFetched) - Len(PagesWithRecords) \in {0, 1}
    /\ \A i \in 1..Len(progress_calls) :
          /\ progress_calls[i][1] = i
          /\ PagesWithRecords[i].page = i
          /\ progress_calls[i][2]
                = Len(ConcatPages(SubSeq(PagesWithRecords, 1, i)))

\* A fetch of two full pages and an empty third one made two invocations,
\* the second with the count of both pages.
C11_Witness ==
    /\ LoadEnded /\ fetch_status = "returned"
    /\ Len(PagesFetched) = 3
    /\ Len(progress_calls) = 2
    /\ progress_calls[2] = <<2, 2 * activities_per_page>>

(***************************************************************************)
(* The upstream listing moves while it is being paged through.             *)
(***************************************************************************)
\* The athlete records an activity while a fetch is running: the listing
\* of /athlete/activities is newest first, so the new activity takes the
\* first place and every other one moves down by one, across the page
\* boundaries of the offset pagination.  It starts no earlier than any
\* activity recorded before.
upstream_adds_activity ==
    /\ pc # "idle"
    /\ Len(account) < MaxActivities
    /\ account' = <<RawActivity(Len(account) + 1, MaxStart)>> \o account
    /\ UNCHANGED <<cache_file, memo, pc, force_refresh, access_token,
                   token_expires_at, page, all_activities, fetch_status,
                   requests, cache_at_call, memo_at_call, outcome,
                   progress_calls, analysis_vars, session_vars>>

NextUpstream ==
    \/ Next
    \/ upstream_adds_activity

SpecUpstream == Init /\ [][NextUpstream]_vars

\* The activity identifiers of a table are pairwise different.
unique_activity_ids(df) ==
    \A i, j \in 1..Len(df) : df[i].activity_id = df[j].activity_id => i = j

\* C12: every table the pipeline caches or returns has unique activity
\* identifiers, also when the upstream returned the same activity on two
\* pages of one fetch.
C12_UniqueActivityIds ==
    /\ cache_file.some => unique_activity_ids(read_parquet(cache_file.val))
    /\ outcome.kind = "table" => unique_activity_ids(outcome.table)

(***************************************************************************)
(* The analysis functions.  Each one is a function of a table: the model   *)
(* calls it once, on arguments drawn from the sets below, and keeps what   *)
(* it returned.  The pipeline is at rest meanwhile.                        *)
(***************************************************************************)
\* The start dates of the activities analysed: FirstDay and every
\* DayStride-th day after it, MaxDayIndex times.  Day 357 is Monday
\* 2018-12-24, so the dates lie on both sides of a turn of the year.
FirstDay == 357
DayStride == 9
MaxDayIndex == 3
Days == { FirstDay + k * DayStride : k \in 0..MaxDayIndex }

\* An activity is of one of the profiles 0..MaxProfile: profile j is a run
\* when j is even and a ride when it is odd, and is j times as long, as far
\* and as steep as profile 1.
MaxProfile == 2
Profiles == 0..MaxProfile
Sports == {"Run", "Ride"}
ProfileActivity(i, s, j) ==
    Activity(i, s, IF j % 2 = 0 THEN "Run" ELSE "Ride", 2500 * j, 900 * j, 10 * j)

\* The batches of at most n raw activities with identifiers 1, 2, ... whose
\* profiles are among js.
Batches(n, js) ==
    UNION { { [k \in 1..m |-> ProfileActivity(k, f[k][1], f[k][2])] :
                f \in [1..m -> Days \X js] }
            : m \in 0..n }

\* normalize_activities is called on batches of at most MaxBatch activities.
MaxBatch == 3
\* The tables the other functions are called on have at most MaxRows rows.
MaxRows == 2

\* The columns of a table with at least one row.
Columns(df) == DOMAIN df[1]

\* The function raised KeyError for a column.
KeyError(column) == [kind |-> "error", error |-> "KeyError", column |-> column]

\* The variables of the pipeline.
pipeline_vars == <<account, cache_file, memo, pc, force_refresh, access_token,
                   token_expires_at, page, all_activities, fetch_status,
                   requests, cache_at_call, memo_at_call, outcome,
                   progress_calls>>

\* No load has been called and the upstream account is empty.
PipelineAtRest ==
    /\ account = <<>>
    /\ cache_file = None
    /\ memo = None
    /\ pc = "idle"
    /\ force_refresh = FALSE
    /\ access_token = NoToken
    /\ token_expires_at = NoTime
    /\ page = 1
    /\ all_activities = <<>>
    /\ fetch_status = "not_called"
    /\ requests = <<>>
    /\ cache_at_call = None
    /\ memo_at_call = None
    /\ outcome = NotCalled
    /\ progress_calls = <<>>

\* The function named fn has been called and has not returned yet.
Called(fn) == call.fn = fn /\ result = NoResult
\* The function named fn has returned.
Returned(fn) == call.fn = fn /\ result # NoResult

(***************************************************************************)
(* calculate_weekly_stats                                                  *)
(***************************************************************************)
\* The distinct values of a column, in the order of their first rows.
RECURSIVE unique(_, _)
unique(df, column) ==
    IF df = <<>> THEN <<>>
    ELSE LET rest == unique(SubSeq(df, 1, Len(df) - 1), column)
             v == df[Len(df)][column]
         IN  IF \E i \in 1..Len(rest) : rest[i] = v THEN rest
             ELSE Append(rest, v)

\* The sum of a column of fractions.
RECURSIVE sum(_, _)
sum(df, column) ==
    IF df = <<>> THEN Zero
    ELSE RatAdd(sum(Tail(df), column), Head(df)[column])

\* df.groupby("year_week", sort=False).agg(...).reset_index() with the
\* columns renamed: one row per label, in the order of first appearance.
groupby_year_week(df) ==
    LET keys == unique(df, "year_week") IN
    [k \in 1..Len(keys) |->
        LET group == SelectSeq(df, LAMBDA r : r.year_week = keys[k]) IN
        [year_week          |-> keys[k],
         total_distance_km  |-> sum(group, "distance_km"),
         total_elevation_m  |-> sum(group, "elevation_m"),
         total_duration_min |-> sum(group, "duration_min"),
         activity_count     |-> Len(group),
         week_start_date    |-> group[1].week_start]]

\* pd.date_range(start, end, freq='W-MON'): the Mondays from start to end.
RECURSIVE date_range_W_MON(_, _)
date_range_W_MON(start, end) ==
    LET first == start + ((7 - dt_weekday(start)) % 7) IN
    IF first > end THEN <<>>
    ELSE <<first>> \o date_range_W_MON(first + 7, end)

\* monday.strftime("%Y-W%V") + " (" + monday.strftime("%b %d") + " - " +
\* sunday.strftime("%b %d") + ")"
week_label(monday) ==
    LET sunday == monday + 6 IN
    <<dt_year(monday), "-W", strftime_V(monday), " (", strftime_b_d(monday),
      " - ", strftime_b_d(sunday), ")">>

\* complete_weeks_df.merge(weekly[...], on="year_week", how="left") and the
\* fillna(0) of the four totals: every row of the left table, once for
\* each row of the right table with its label, or once with zeros when
\* there is none.
RECURSIVE merge_left(_, _)
merge_left(complete_weeks, weekly) ==
    IF complete_weeks = <<>> THEN <<>>
    ELSE LET w == Head(complete_weeks)
             matches == SelectSeq(weekly, LAMBDA r : r.year_week = w.year_week)
             rows == IF matches = <<>>
                     THEN << [year_week          |-> w.year_week,
                              week_start_date    |-> w.week_start_date,
                              total_distance_km  |-> Zero,
                              total_elevation_m  |-> Zero,
                              total_duration_min |-> Zero,
                              activity_count     |-> 0] >>
                     ELSE [k \in 1..Len(matches) |->
                             [year_week          |-> w.year_week,
                              week_start_date    |-> w.week_start_date,
                              total_distance_km  |-> matches[k].total_distance_km,
                              total_elevation_m  |-> matches[k].total_elevation_m,
                              total_duration_min |-> matches[k].total_duration_min,
                              activity_count     |-> matches[k].activity_count]]
         IN  rows \o merge_left(Tail(complete_weeks), weekly)

\* The least and the greatest value of an integer column.
column_min(df, column) ==
    CHOOSE v \in { df[i][column] : i \in 1..Len(df) } :
        \A i \in 1..Len(df) : v <= df[i][column]
column_max(df, column) ==
    CHOOSE v \in { df[i][column] : i \in 1..Len(df) } :
        \A i \in 1..Len(df) : v >= df[i][column]

\* The columns the aggregation of calculate_weekly_stats reads.
weekly_agg_columns ==
    {"year_week", "distance_km", "elevation_m", "duration_min", "activity_id",
     "week_start"}

\* calculate_weekly_stats(df).  The aggregation raises KeyError when the
\* table lacks a column it names; the merge raises it when there is no
\* Monday in the range, the left table then having no column at all.  The
\* Mondays are generated in ascending order, which the final sort keeps.
calculate_weekly_stats(df) ==
    IF df = EmptyDataFrame THEN Table(EmptyDataFrame)
    ELSE IF ~(weekly_agg_columns \subseteq Columns(df))
    THEN KeyError(CHOOSE c \in weekly_agg_columns : c \notin Columns(df))
    ELSE LET weekly == groupby_year_week(df)
             min_date == column_min(df, "week_start")
             max_date == column_max(df, "week_start")
             all_mondays == date_range_W_MON(min_date, max_date)
             complete_weeks ==
                 [k \in 1..Len(all_mondays) |->
                     [year_week       |-> week_label(all_mondays[k]),
                      week_start_date |-> all_mondays[k]]]
         IN  IF all_mondays = <<>> THEN KeyError("year_week")
             ELSE Table(merge_left(complete_weeks, weekly))

\* calculate_weekly_stats is called on what normalize_activities makes of a
\* batch.
WeeklyCall ==
    \E b \in Batches(MaxRows, Profiles) :
        call = [fn |-> "calculate_weekly_stats", df |-> normalize_activities(b)]

call_calculate_weekly_stats ==
    /\ Called("calculate_weekly_stats")
    /\ result' = calculate_weekly_stats(call.df)
    /\ UNCHANGED <<call, pipeline_vars, session_vars>>
(***************************************************************************)
(* normalize_activities, called on its own.                                *)
(***************************************************************************)
\* normalize_activities is called on a batch of activities with and without
\* distance, duration and elevation.
NormalizeCall ==
    \E b \in Batches(MaxBatch, {0, 1}) :
        call = [fn |-> "normalize_activities", raw_activities |-> b]

call_normalize_activities ==
    /\ Called("normalize_activities")
    /\ result' = Table(normalize_activities(call.raw_activities))
    /\ UNCHANGED <<call, pipeline_vars, session_vars>>

(***************************************************************************)
(* add_rolling_averages                                                    *)
(***************************************************************************)
\* The weekly tables have at most MaxWeeks rows; the totals of a week are
\* those of v activities, v in 0..MaxTotal, of 10 km and one hour each,
\* and the flatter the more of them there are.
MaxWeeks == 5
MaxTotal == 2
WeeklyRow(k, v) ==
    LET monday == MondayOf(FirstDay) + 7 * (k - 1) IN
    [year_week          |-> week_label(monday),
     week_start_date    |-> monday,
     total_distance_km  |-> Rat(10 * v, 1),
     total_elevation_m  |-> Rat(10 * (MaxTotal - v), 1),
     total_duration_min |-> Rat(60 * v, 1),
     activity_count     |-> v]
WeeklyTables ==
    UNION { { [k \in 1..n |-> WeeklyRow(k, f[k])] : f \in [1..n -> 0..MaxTotal] }
            : n \in 0..MaxWeeks }

\* windows=[4], the default and what the overview page passes.
default_window == 4

\* The mean of every row of a column with all rows before it.
expanding_mean(df, column, window) ==
    [i \in 1..Len(df) |-> RatDiv(sum(SubSeq(df, 1, i), column), Rat(i, 1))]

\* Series.rolling(window=window, min_periods=1).mean(): the mean of the
\* last `window` values up to each row, or of all values up to it while
\* there are fewer.
rolling_mean(df, column, window) ==
    [i \in 1..Len(df) |->
        LET lo == Max(1, i - window + 1) IN
        RatDiv(sum(SubSeq(df, lo, i), column), Rat(i - lo + 1, 1))]

\* add_rolling_averages(weekly_df, windows=[window]).  A table without
\* columns, which is what calculate_weekly_stats returns for no activity,
\* has no total_distance_km to read.
add_rolling_averages(weekly_df, window) ==
    IF weekly_df = EmptyDataFrame THEN KeyError("total_distance_km")
    ELSE LET distance == rolling_mean(weekly_df, "total_distance_km", window)
             elevation == rolling_mean(weekly_df, "total_elevation_m", window)
         IN  Table([i \in 1..Len(weekly_df) |->
                      ("distance_km_4w_avg" :> distance[i])
                      @@ ("elevation_m_4w_avg" :> elevation[i])
                      @@ weekly_df[i]])

RollingCall ==
    \E w \in WeeklyTables :
        call = [fn |-> "add_rolling_averages", weekly_df |-> w,
                window |-> default_window]

call_add_rolling_averages ==
    /\ Called("add_rolling_averages")
    /\ result' = add_rolling_averages(call.weekly_df, call.window)
    /\ UNCHANGED <<call, pipeline_vars, session_vars>>

(***************************************************************************)
(* calculate_yoy_change                                                    *)
(***************************************************************************)
\* The floats that are no number and the infinite ones.
NaN == [float |-> "nan"]
PosInf == [float |-> "inf"]
NegInf == [float |-> "-inf"]

\* x / y in floats: a division by zero gives an infinity of the sign of x,
\* and no number when x is zero too.
float_div(x, y) ==
    IF y # Zero THEN RatDiv(x, y)
    ELSE IF x = Zero THEN NaN
    ELSE IF RatLess(Zero, x) THEN PosInf ELSE NegInf

\* x * k in floats, for k > 0.
float_times(x, k) == IF x \in {NaN, PosInf, NegInf} THEN x ELSE RatMul(x, Rat(k, 1))

\* Series.pct_change(): the change of every value against the one before,
\* as a fraction of the one before; the first row has none before.
pct_change(df, c) ==
    [i \in 1..Len(df) |->
        IF i = 1 THEN NaN
        ELSE float_div(RatSub(df[i][c], df[i - 1][c]), df[i - 1][c])]

\* The yearly tables have at most MaxYears rows, of consecutive years; the
\* totals of a year are drawn from YearTotals and its activities are one
\* or two, ten minutes long for every kilometre.
MaxYears == 2
YearTotals == {0, 100, 150}
YearlyRow(k, distance, elevation, count) ==
    [year               |-> EpochYear + k,
     total_distance_km  |-> Rat(distance, 1),
     total_elevation_m  |-> Rat(elevation, 1),
     total_duration_min |-> Rat(10 * distance, 1),
     activity_count     |-> Rat(count, 1)]
YearlyTables ==
    UNION { { [k \in 1..n |-> YearlyRow(k, f[k][1], f[k][2], f[k][3])] :
                f \in [1..n -> YearTotals \X YearTotals \X {1, 2}] }
            : n \in 0..MaxYears }

\* The columns calculate_yoy_change computes the change of.
yoy_columns ==
    {"total_distance_km", "total_elevation_m", "total_duration_min",
     "activity_count"}

\* The name of the column that holds the change of a column.
yoy_change_column(c) ==
    CASE c = "total_distance_km"  -> "total_distance_km_yoy_change"
      [] c = "total_elevation_m"  -> "total_elevation_m_yoy_change"
      [] c = "total_duration_min" -> "total_duration_min_yoy_change"
      [] c = "activity_count"     -> "activity_count_yoy_change"

\* calculate_yoy_change(yearly_df).  A table without columns, which is what
\* calculate_yearly_stats returns for no activity, has no total_distance_km
\* to read.
calculate_yoy_change(yearly_df) ==
    IF yearly_df = EmptyDataFrame THEN KeyError("total_distance_km")
    ELSE Table([i \in 1..Len(yearly_df) |->
                  [c \in DOMAIN yearly_df[i]
                         \cup { yoy_change_column(m) : m \in yoy_columns } |->
                      IF c \in DOMAIN yearly_df[i] THEN yearly_df[i][c]
                      ELSE LET m == CHOOSE m \in yoy_columns :
                                       yoy_change_column(m) = c
                           IN  float_times(pct_change(yearly_df, m)[i], 100)]])

YoyCall ==
    \E y \in YearlyTables : call = [fn |-> "calculate_yoy_change", yearly_df |-> y]

call_calculate_yoy_change ==
    /\ Called("calculate_yoy_change")
    /\ result' = calculate_yoy_change(call.yearly_df)
    /\ UNCHANGED <<call, pipeline_vars, session_vars>>

(***************************************************************************)
(* find_best_week and find_best_month                                      *)
(***************************************************************************)
\* The monthly tables have at most MaxMonths rows, of the months from that
\* of FirstDay on, with the totals of the weekly tables.
MaxMonths == 3
MonthlyRow(k, v) ==
    LET first == strftime_Y_m(FirstDay)
        m == first[2] + k - 2
    IN  [month              |-> <<first[1] + (m \div 12), (m % 12) + 1>>,
         total_distance_km  |-> Rat(10 * v, 1),
         total_elevation_m  |-> Rat(10 * (MaxTotal - v), 1),
         total_duration_min |-> Rat(60 * v, 1),
         activity_count     |-> v]
MonthlyTables ==
    UNION { { [k \in 1..n |-> MonthlyRow(k, f[k])] : f \in [1..n -> 0..MaxTotal] }
            : n \in 0..MaxMonths }

\* The metrics the overview page asks the best week and month of.
Metrics == {"total_distance_km", "total_elevation_m", "total_duration_min"}

\* The last row that holds the greatest value of the metric.
idxmax_last(df, metric) ==
    CHOOSE i \in 1..Len(df) :
        /\ \A j \in 1..Len(df) : RatLeq(df[j][metric], df[i][metric])
        /\ \A j \in (i + 1)..Len(df) : df[j][metric] # df[i][metric]

\* Series.idxmax(): the first row that holds the greatest value.
idxmax(df, metric) ==
    CHOOSE i \in 1..Len(df) :
        /\ \A j \in 1..Len(df) : RatLeq(df[j][metric], df[i][metric])
        /\ \A j \in 1..(i - 1) : df[j][metric] # df[i][metric]

\* What find_best_week and find_best_month return: a pair.
Pair(label, value) == [kind |-> "pair", label |-> label, value |-> value]

find_best_week(weekly_df, metric) ==
    IF weekly_df = EmptyDataFrame THEN Pair("N/A", Zero)
    ELSE LET best_row == weekly_df[idxmax(weekly_df, metric)]
         IN  Pair(best_row.year_week, best_row[metric])

find_best_month(monthly_df, metric) ==
    IF monthly_df = EmptyDataFrame THEN Pair("N/A", Zero)
    ELSE LET best_row == monthly_df[idxmax(monthly_df, metric)]
         IN  Pair(best_row.month, best_row[metric])

BestWeekCall ==
    \E w \in WeeklyTables, m \in Metrics :
        call = [fn |-> "find_best_week", weekly_df |-> w, metric |-> m]
BestMonthCall ==
    \E w \in MonthlyTables, m \in Metrics :
        call = [fn |-> "find_best_month", monthly_df |-> w, metric |-> m]

call_find_best_week ==
    /\ Called("find_best_week")
    /\ result' = find_best_week(call.weekly_df, call.metric)
    /\ UNCHANGED <<call, pipeline_vars, session_vars>>

call_find_best_month ==
    /\ Called("find_best_month")
    /\ result' = find_best_month(call.monthly_df, call.metric)
    /\ UNCHANGED <<call, pipeline_vars, session_vars>>

(***************************************************************************)
(* filter_activities                                                       *)
(***************************************************************************)
\* What filter_activities returns, and whether it has called st.error.
Filtered(df, error) == [kind |-> "table", table |-> df, st_error |-> error]

\* A table without one of its columns.
drop(df, c) == [i \in 1..Len(df) |-> [k \in DOMAIN df[i] \ {c} |-> df[i][k]]]

\* The end of the range taken as exclusive.
filter_activities_exclusive_end(df, start_date, end_date, sport_types) ==
    IF df = EmptyDataFrame THEN Filtered(df, FALSE)
    ELSE IF "datetime" \notin Columns(df) THEN Filtered(EmptyDataFrame, TRUE)
    ELSE Filtered(SelectSeq(df, LAMBDA r :
                     /\ start_date.some => r.datetime >= start_date.val
                     /\ end_date.some => r.datetime < end_date.val
                     /\ (sport_types.some /\ sport_types.val # {}
                           /\ "sport" \in Columns(df))
                          => r.sport \in sport_types.val),
                  FALSE)

\* filter_activities(df, start_date, end_date, sport_types).  An empty
\* table is returned as it is; a table without a datetime column makes the
\* function show an error and return pd.DataFrame(); otherwise the three
\* selections follow one another, each one only when its argument is given
\* (and, for the sports, when the list has an element).
filter_activities(df, start_date, end_date, sport_types) ==
    IF df = EmptyDataFrame THEN Filtered(df, FALSE)
    ELSE IF "datetime" \notin Columns(df) THEN Filtered(EmptyDataFrame, TRUE)
    ELSE LET from_start ==
                 IF start_date.some
                 THEN SelectSeq(df, LAMBDA r : r.datetime >= start_date.val)
                 ELSE df
             to_end ==
                 IF end_date.some
                 THEN SelectSeq(from_start, LAMBDA r : r.datetime <= end_date.val)
                 ELSE from_start
             of_sports ==
                 IF sport_types.some /\ sport_types.val # {}
                    /\ "sport" \in Columns(df)
                 THEN SelectSeq(to_end, LAMBDA r : r.sport \in sport_types.val)
                 ELSE to_end
         IN  Filtered(of_sports, FALSE)

\* The tables filter_activities is called on: what normalize_activities
\* makes of a batch of runs and rides, and the same without the datetime
\* column, as a cache file written by something else may hold it.
FilterTables ==
    LET tables == { normalize_activities(b) : b \in Batches(MaxRows, {0, 1}) }
    IN  tables \cup { drop(df, "datetime") : df \in tables }

\* The range given is from the second to the third of the days, so that
\* activities lie before it, on its first day, on its last day and after
\* it; the sports given are none, an empty list, or some of the sports.
FilterStarts == {None, Some(FirstDay + DayStride)}
FilterEnds == {None, Some(FirstDay + 2 * DayStride)}
FilterSports == {None} \cup { Some(s) : s \in SUBSET Sports }

FilterCall ==
    \E df \in FilterTables, s \in FilterStarts, e \in FilterEnds,
       t \in FilterSports :
        call = [fn |-> "filter_activities", df |-> df, start_date |-> s,
                end_date |-> e, sport_types |-> t]

call_filter_activities ==
    /\ Called("filter_activities")
    /\ result' = filter_activities(call.df, call.start_date, call.end_date,
                                   call.sport_types)
    /\ UNCHANGED <<call, pipeline_vars, session_vars>>

(***************************************************************************)
(* The analysis session: one call of one function.                         *)
(***************************************************************************)
\* One of the functions is called, on arguments it can be called on.
AnalysisCall ==
    \/ WeeklyCall
    \/ NormalizeCall
    \/ RollingCall
    \/ YoyCall
    \/ BestWeekCall
    \/ BestMonthCall
    \/ FilterCall

InitAnalysis ==
    /\ PipelineAtRest
    /\ NoPageRun
    /\ result = NoResult
    /\ AnalysisCall

NextAnalysis ==
    \/ call_calculate_weekly_stats
    \/ call_normalize_activities
    \/ call_add_rolling_averages
    \/ call_calculate_yoy_change
    \/ call_find_best_week
    \/ call_find_best_month
    \/ call_filter_activities

SpecAnalysis == InitAnalysis /\ [][NextAnalysis]_vars

(***************************************************************************)
(* The weekly aggregate.                                                   *)
(***************************************************************************)
\* The rows of a table whose timestamp lies in the week that starts on the
\* given Monday.
RowsOfWeek(df, monday) == SelectSeq(df, LAMBDA r : MondayOf(r.datetime) = monday)

\* C13: for activities spanning the weeks W1..Wn the weekly aggregate has
\* exactly n buckets, one per Monday-anchored week, in chronological order
\* and with no week skipped; a week without activities has sums 0 and
\* count 0.
C13_OneBucketPerWeek ==
    (Returned("calculate_weekly_stats") /\ call.df # EmptyDataFrame) =>
        LET first == MondayOf(column_min(call.df, "datetime"))
            last == MondayOf(column_max(call.df, "datetime"))
            n == (last - first) \div 7 + 1
        IN  /\ result.kind = "table"
            /\ Len(result.table) = n
            /\ \A k \in 1..n :
                  LET bucket == result.table[k]
                      monday == first + 7 * (k - 1)
                  IN  /\ bucket.week_start_date = monday
                      /\ RowsOfWeek(call.df, monday) = <<>> =>
                            /\ bucket.total_distance_km = Zero
                            /\ bucket.total_elevation_m = Zero
                            /\ bucket.total_duration_min = Zero
                            /\ bucket.activity_count = 0

(***************************************************************************)
(* The week labels.                                                        *)
(***************************************************************************)
\* The year and the week number a label starts with: its "<year>-W<week>".
YearWeekOf(label) == SubSeq(label, 1, 3)

\* C14: the normalizer and the aggregator label weeks by one ISO 8601 week
\* definition: the year-week label the normalizer gives a date names the
\* same year and week as the label the aggregator gives the gap-filled
\* week that contains the date, also at a turn of the year.  (The label of
\* the aggregator goes on with the dates of the week's Monday and Sunday,
\* which the comparison leaves aside.)
C14_OneWeekDefinition ==
    Returned("normalize_activities") =>
        \A i \in 1..Len(result.table) :
            LET row == result.table[i] IN
            YearWeekOf(row.year_week)
                = YearWeekOf(week_label(MondayOf(row.datetime)))

(***************************************************************************)
(* The rolling average.                                                    *)
(***************************************************************************)
\* A column of a table, as a sequence.
column(df, c) == [i \in 1..Len(df) |-> df[i][c]]

\* A non-negative fraction rounded to hundredths.
Round2(x) == Rat((200 * x.num + x.den) \div (2 * x.den), 100)

\* The rolling average of a column is defined in every row: the mean of
\* all values up to the row while these are fewer than the window, and of
\* the last `window` values from then on.
RollingMeanOf(total, avg) ==
    Returned("add_rolling_averages") /\ call.weekly_df # EmptyDataFrame =>
        /\ result.kind = "table"
        /\ Len(result.table) = Len(call.weekly_df)
        /\ \A i \in 1..Len(call.weekly_df) :
              LET n == Min(i, call.window)
                  last == SubSeq(call.weekly_df, i - n + 1, i)
              IN  /\ avg \in DOMAIN result.table[i]
                  /\ RatMul(result.table[i][avg], Rat(n, 1)) = sum(last, total)

\* The weekly distances 10, 0, 0, 0, 20.
ExampleWeeks ==
    /\ call.fn = "add_rolling_averages"
    /\ column(call.weekly_df, "total_distance_km")
          = <<Rat(10, 1), Zero, Zero, Zero, Rat(20, 1)>>

\* The rolling averages of the distance, to two places.
RoundedDistanceAverages ==
    [i \in 1..Len(result.table) |-> Round2(result.table[i]["distance_km_4w_avg"])]

\* C15 as stated: the rolling average of window 4 over the weekly values
\* 10, 0, 0, 0, 20 is 10, 5, 3.33, 2.5, 7.5; it is the cumulative mean
\* while there are fewer than 4 values and the mean of the last 4 from
\* then on, and is never undefined.
C15_AsStated ==
    /\ RollingMeanOf("total_distance_km", "distance_km_4w_avg")
    /\ RollingMeanOf("total_elevation_m", "elevation_m_4w_avg")
    /\ ExampleWeeks /\ result # NoResult =>
          RoundedDistanceAverages
             = <<Rat(10, 1), Rat(5, 1), Rat(333, 100), Rat(25, 10), Rat(75, 10)>>

\* C15 as amended: the rolling average of window 4 over the weekly values
\* 10, 0, 0, 0, 20 is 10, 5, 3.33, 2.5, 5.0, the last being the mean of
\* 0, 0, 0, 20; it is the cumulative mean while there are fewer than 4
\* values and the mean of the last 4 from then on, and is never undefined.
C15_RollingAverage ==
    /\ RollingMeanOf("total_distance_km", "distance_km_4w_avg")
    /\ RollingMeanOf("total_elevation_m", "elevation_m_4w_avg")
    /\ ExampleWeeks /\ result # NoResult =>
          RoundedDistanceAverages
             = <<Rat(10, 1), Rat(5, 1), Rat(333, 100), Rat(25, 10), Rat(5, 1)>>

\* The averages of 10, 0, 0, 0, 20 have been computed.
C15_Witness ==
    /\ ExampleWeeks
    /\ result.kind = "table"
    /\ result.table[5]["distance_km_4w_avg"] = Rat(5, 1)
    /\ result.table[3]["distance_km_4w_avg"] = Rat(10, 3)

(***************************************************************************)
(* The year-over-year change.                                              *)
(***************************************************************************)
\* C16: for every metric, yoy_change gives every row after the first
\* (current - previous) / previous * 100 against the row before it, so
\* that the totals 100, 150 give 50.0 on the second row; it gives the
\* undefined value, which is not zero, on the first row and on every row
\* whose previous value is zero.
C16_YoyChange ==
    Returned("calculate_yoy_change") /\ call.yearly_df # EmptyDataFrame =>
        /\ result.kind = "table"
        /\ Len(result.table) = Len(call.yearly_df)
        /\ \A m \in yoy_columns : \A i \in 1..Len(call.yearly_df) :
              LET change == result.table[i][yoy_change_column(m)]
                  current == call.yearly_df[i][m]
                  previous == call.yearly_df[i - 1][m]
              IN  /\ i = 1 => change = NaN
                  /\ i > 1 /\ previous = Zero => change = NaN
                  /\ i > 1 /\ previous # Zero =>
                        /\ change \notin {NaN, PosInf, NegInf}
                        /\ RatMul(change, previous)
                              = RatMul(RatSub(current, previous), Rat(100, 1))
                  /\ i > 1 /\ previous = Rat(100, 1) /\ current = Rat(150, 1) =>
                        change = Rat(50, 1)

(***************************************************************************)
(* The best week and the best month.                                       *)
(***************************************************************************)
\* The pair is the label and the value of the first bucket of the table
\* that holds the greatest value of the metric, or ("N/A", 0.0) when the
\* table has no bucket.
BestOf(df, label, metric, pair) ==
    /\ pair.kind = "pair"
    /\ df = EmptyDataFrame => pair.label = "N/A" /\ pair.value = Zero
    /\ df # EmptyDataFrame =>
          \E i \in 1..Len(df) :
              /\ pair.label = df[i][label]
              /\ pair.value = df[i][metric]
              /\ \A j \in 1..Len(df) : ~RatLess(df[i][metric], df[j][metric])
              /\ \A j \in 1..(i - 1) : RatLess(df[j][metric], df[i][metric])

\* C17: find_best_week and find_best_month return ("N/A", 0.0) for an
\* empty bucket set; for a non-empty one they return the label and the
\* value of the bucket with the greatest value of the metric named, the
\* first such bucket in sequence order when several share it.
C17_FindBest ==
    /\ Returned("find_best_week") =>
          BestOf(call.weekly_df, "year_week", call.metric, result)
    /\ Returned("find_best_month") =>
          BestOf(call.monthly_df, "month", call.metric, result)

\* The best week of a table whose second and third week share the greatest
\* distance has been found: it is the second.
C17_Witness ==
    /\ Returned("find_best_week")
    /\ call.metric = "total_distance_km"
    /\ Len(call.weekly_df) = 3
    /\ RatLess(call.weekly_df[1].total_distance_km,
               call.weekly_df[2].total_distance_km)
    /\ call.weekly_df[3].total_distance_km = call.weekly_df[2].total_distance_km
    /\ result.label = call.weekly_df[2].year_week
    /\ result.label # call.weekly_df[3].year_week

(***************************************************************************)
(* The filter.                                                             *)
(***************************************************************************)
\* The row is within the range and of the sports the call names.
Matches(r) ==
    /\ call.start_date.some => call.start_date.val <= r.datetime
    /\ call.end_date.some => r.datetime <= call.end_date.val
    /\ (call.sport_types.some /\ call.sport_types.val # {})
          => r.sport \in call.sport_types.val

\* The rows of the first table are rows of the second, in its order.
RECURSIVE IsSubsequence(_, _)
IsSubsequence(s, t) ==
    IF s = <<>> THEN TRUE
    ELSE IF t = <<>> THEN FALSE
    ELSE IF Head(s) = Head(t) THEN IsSubsequence(Tail(s), Tail(t))
    ELSE IsSubsequence(s, Tail(t))

\* C18: filter returns exactly the rows of its input, in input order,
\* whose timestamp t has start <= t <= end, each bound applied only when
\* given and both inclusive, and whose category is in the category set
\* given; an empty or absent set restricts nothing and never leaves zero
\* matches by itself.
C18_FilterSelects ==
    (Returned("filter_activities") /\ call.df # EmptyDataFrame
        /\ "datetime" \in Columns(call.df)) =>
        /\ result.kind = "table" /\ ~result.st_error
        /\ IsSubsequence(result.table, call.df)
        /\ \A i \in 1..Len(call.df) :
              Matches(call.df[i])
                 <=> \E j \in 1..Len(result.table) : result.table[j] = call.df[i]
        /\ (~call.start_date.some /\ ~call.end_date.some
               /\ (~call.sport_types.some \/ call.sport_types.val = {}))
              => result.table = call.df

\* A table of a ride on the first day of the range and a run on its last
\* day has been filtered for runs in the range: the run is what is left.
C18_Witness ==
    /\ Returned("filter_activities")
    /\ call.start_date.some /\ call.end_date.some
    /\ call.sport_types = Some({"Run"})
    /\ Len(call.df) = 2
    /\ "datetime" \in Columns(call.df)
    /\ call.df[1].datetime = call.end_date.val /\ call.df[1].sport = "Run"
    /\ call.df[2].datetime = call.start_date.val /\ call.df[2].sport = "Ride"
    /\ result.table = <<call.df[1]>>

\* C19: filter applied to a non-empty table that lacks the timestamp
\* column fails loudly: it ends in an error and returns no table, so that
\* its caller cannot take the result for "no row matched".
C19_MissingTimestampFails ==
    (Returned("filter_activities") /\ call.df # EmptyDataFrame
        /\ "datetime" \notin Columns(call.df)) =>
        result.kind = "error"

(***************************************************************************)
(* The normalizer.                                                         *)
(***************************************************************************)
\* C20: for every non-empty batch of raw records normalize returns a
\* table with exactly one row per record, ordered by timestamp descending,
\* in which every distance, duration and elevation is non-negative; for an
\* empty batch it returns an empty table, without error.
C20_NormalizeShape ==
    Returned("normalize_activities") =>
        LET raw == call.raw_activities
            df == result.table
        IN  /\ result.kind = "table"
            /\ raw = <<>> => df = EmptyDataFrame
            /\ Len(df) = Len(raw)
            /\ \A k \in 1..Len(raw) :
                  Cardinality({ i \in 1..Len(df) : df[i].activity_id = raw[k].id }) = 1
            /\ \A i \in 1..Len(df) :
                  /\ i < Len(df) => df[i].datetime >= df[i + 1].datetime
                  /\ RatLeq(Zero, df[i].distance_km)
                  /\ RatLeq(Zero, df[i].duration_min)
                  /\ RatLeq(Zero, df[i].elevation_m)

\* A batch of three activities in ascending order of their start has been
\* normalized: the table starts with the last of them.
C20_Witness ==
    /\ Returned("normalize_activities")
    /\ Len(call.raw_activities) = 3
    /\ call.raw_activities[1].start_date_local
          < call.raw_activities[2].start_date_local
    /\ call.raw_activities[2].start_date_local
          < call.raw_activities[3].start_date_local
    /\ call.raw_activities[1].distance > 0
    /\ result.table[1].activity_id = call.raw_activities[3].id
    /\ result.table[3].activity_id = call.raw_activities[1].id
    /\ RatLess(Zero, result.table[3].distance_km)

(***************************************************************************)
(* The cache store, saved to and loaded from on its own.                   *)
(***************************************************************************)
\* What load_from_cache returned: a table or None.
Loaded(cached_df) == [kind |-> "optional", value |-> cached_df]

\* The tables save_to_cache is given: fetch_activities_from_api calls it
\* with what normalize_activities made of a batch with at least one
\* activity.
SavedTables ==
    { normalize_activities(b) : b \in Batches(MaxRows, {0, 1}) \ {<<>>} }

\* A save_to_cache that adds the rows to those the file holds.
call_save_to_cache_appending ==
    \E df \in SavedTables :
        /\ cache_file' =
              IF cache_file.some
              THEN save_to_cache(read_parquet(cache_file.val) \o df)
              ELSE save_to_cache(df)
        /\ call' = [fn |-> "save_to_cache", df |-> df]
        /\ result' = NoResult
        /\ UNCHANGED <<account, memo, pc, force_refresh, access_token,
                       token_expires_at, page, all_activities, fetch_status,
                       requests, cache_at_call, memo_at_call, outcome,
                       progress_calls, session_vars>>

\* save_to_cache(df, config): ensure_cache_dir makes the directory when it
\* is missing and changes no file; to_parquet writes the file at cache_path
\* anew.  call keeps the most recent save.
call_save_to_cache ==
    \E df \in SavedTables :
        /\ cache_file' = save_to_cache(df)
        /\ call' = [fn |-> "save_to_cache", df |-> df]
        /\ result' = NoResult
        /\ UNCHANGED <<account, memo, pc, force_refresh, access_token,
                       token_expires_at, page, all_activities, fetch_status,
                       requests, cache_at_call, memo_at_call, outcome,
                       progress_calls, session_vars>>

\* load_from_cache(config): result keeps what it returned.  The datetime
\* column read from the file holds timestamps, which pd.to_datetime leaves
\* as they are.
call_load_from_cache ==
    /\ result' = Loaded(load_from_cache(cache_file))
    /\ UNCHANGED <<call, pipeline_vars, session_vars>>

\* No save and no load has happened: there is no cache file.
InitCache ==
    /\ PipelineAtRest
    /\ NoPageRun
    /\ call = NoCall
    /\ result = NoResult

NextCache ==
    \/ call_save_to_cache
    \/ call_load_from_cache

SpecCache == InitCache /\ [][NextCache]_vars

\* C21: after any sequence of saves, load_from_cache returns a table equal
\* to the one given to the most recent save_to_cache, with no row of an
\* earlier save; when nothing was ever saved it returns None and raises
\* nothing.
C21_LoadReturnsLastSave ==
    result # NoResult =>
        /\ result.kind = "optional"
        /\ call = NoCall => result.value = None
        /\ call # NoCall => result.value = Some(call.df)

\* A table of two rows that are not in the order of their identifiers has
\* been saved and loaded.
C21_Witness ==
    /\ call # NoCall
    /\ result # NoResult
    /\ result.value.some
    /\ Len(result.value.val) = 2
    /\ result.value.val[1].activity_id = 2
    /\ result.value.val[1].datetime > result.value.val[2].datetime
    /\ result.value.val[1].sport # result.value.val[2].sport

(***************************************************************************)
(* A page of the dashboard.  Streamlit runs the script of the page from    *)
(* its first line on every interaction; st.session_state outlives the      *)
(* runs.                                                                   *)
(***************************************************************************)
\* st.session_state.get(key, default).
session_get(state, key, default) ==
    IF state[key].some THEN state[key].val ELSE default

\* st.session_state.setdefault(key, default).
session_setdefault(state, key, default) ==
    IF state[key].some THEN state ELSE [state EXCEPT ![key] = Some(default)]

\* The first days of the date range chosen in the sidebar; its last day is
\* today, the day of the latest start.
SidebarStartDates == 1..MaxStart

\* The run of the script in which st.button returns True: display_sidebar
\* sets the flag and calls st.rerun(), which ends the run and queues the
\* next one.
press_refresh ==
    /\ script \in {"stopped", "rendered"}
    /\ session_state' = [session_state EXCEPT !["force_refresh"] = Some(TRUE)]
    /\ script' = "rerun"
    /\ UNCHANGED <<pipeline_vars, analysis_vars>>

\* A run of the script in which st.button returns False, up to its call of
\* load_activities: display_sidebar sets the default of the flag and
\* returns it among the filters, and the page passes it on.
page_run_starts ==
    /\ script \in {"none", "rerun", "stopped", "rendered"}
    /\ session_state' = session_setdefault(session_state, "force_refresh", FALSE)
    /\ script' = "load_activities"
    /\ load_activities(session_get(session_state', "force_refresh", FALSE))

\* The rest of the run.  st.stop() in load_activities ends it there;
\* otherwise the table is filtered, an empty result ends the run with
\* st.stop(), and only after that is the flag reset.
page_run_ends(start_date) ==
    /\ script = "load_activities"
    /\ pc = "idle"
    /\ IF outcome = Stopped
       THEN /\ script' = "stopped"
            /\ UNCHANGED session_state
       ELSE LET df_filtered ==
                    filter_activities(outcome.table, Some(start_date),
                                      Some(MaxStart), None).table
            IN  IF df_filtered = EmptyDataFrame
                THEN /\ script' = "stopped"
                     /\ UNCHANGED session_state
                ELSE /\ script' = "rendered"
                     /\ session_state' =
                           IF session_get(session_state, "force_refresh", FALSE)
                           THEN [session_state EXCEPT
                                     !["force_refresh"] = Some(FALSE)]
                           ELSE session_state
    /\ UNCHANGED <<pipeline_vars, analysis_vars>>

NextPage ==
    \/ press_refresh
    \/ page_run_starts
    \/ \E start_date \in SidebarStartDates : page_run_ends(start_date)
    \/ get_access_token_held
    \/ \E expires_at \in TokenExpiries(now) :
           refresh_token_ok(IssuedToken(requests), expires_at)
    \/ \E status \in RefreshFailures : refresh_token_fails(status)
    \/ get_activities_ok
    \/ get_activities_rate_limited
    \/ \E status \in PageFailures : get_activities_fails(status)
    \/ TickFetching
    \/ TickIdle

SpecPage == Init /\ [][NextPage]_vars

\* C22: once the refresh button has set the flag, the flag is False again
\* at the end of the run that loads with force_refresh=true, whatever the
\* outcome of that run: a load stopped for a rate limit without cache, or
\* a filter result that is empty, included.
C22_FlagClearedAtEndOfRun ==
    script \in {"stopped", "rendered"} =>
        ~session_get(session_state, "force_refresh", FALSE)

(***************************************************************************)
(* Fetches without records, and the memoized fetch.                        *)
(***************************************************************************)
\* The load ended after its fetch had met one of the three ends that leave
\* it without a record: page 1 was answered with no activity, the request
\* for page 1 failed otherwise than by a rate limit, or the token refresh
\* before page 1 failed.
EmptyFirstPage ==
    /\ LoadEnded /\ requests # <<>>
    /\ LastRequest.endpoint = "activities" /\ LastRequest.page = 1
    /\ LastRequest.status = "ok" /\ LastRequest.activities = <<>>
FailureOnFirstPage ==
    /\ LoadEnded /\ requests # <<>>
    /\ LastRequest.endpoint = "activities" /\ LastRequest.page = 1
    /\ LastRequest.status \in PageFailures
RefreshFailureOnFirstPage ==
    /\ LoadEnded /\ requests # <<>>
    /\ LastRequest.endpoint = "token" /\ LastRequest.status \in RefreshFailures
    /\ PageRequests = <<>>

YoungEntry(m) == m.some /\ m.val.stored > now - CacheTtlMin

\* C24: the fetch is memoized as one entry that expires after an hour.  A
\* load that is not forced and finds no cache file, less than an hour after
\* a fetch that returned, issues no request and returns the memoized table;
\* a fetch that ended in a rate-limit error leaves no entry to serve, and a
\* load that finds neither cache file nor entry contacts the upstream.
C24_FetchIsMemoized ==
    /\ (LoadEnded /\ ~force_refresh /\ ~cache_at_call.some
            /\ YoungEntry(memo_at_call))
          => /\ fetch_status = "memoized"
             /\ requests = <<>>
             /\ outcome = Table(memo_at_call.val.val)
             /\ cache_file = None
    /\ RateLimited => ~YoungEntry(memo)
    /\ (LoadEnded /\ ~force_refresh /\ ~cache_at_call.some
            /\ ~YoungEntry(memo_at_call))
          => /\ fetch_status \in {"returned", "rate_limited"}
             /\ Len(requests) >= 1

\* A load that was not forced returned the memoized table of a fetch made
\* less than an hour before, without a request.
C24_Witness ==
    /\ LoadEnded /\ ~force_refresh /\ ~cache_at_call.some
    /\ memo_at_call.some /\ memo_at_call.val.stored < now
    /\ fetch_status = "memoized"
    /\ requests = <<>>
    /\ outcome = Table(memo_at_call.val.val)

(***************************************************************************)
(* The totals of the weekly aggregate.                                     *)
(***************************************************************************)
\* The activities counted by the buckets of a weekly table.
RECURSIVE activities_counted(_)
activities_counted(weekly) ==
    IF weekly = <<>> THEN 0
    ELSE Head(weekly).activity_count + activities_counted(Tail(weekly))

\* C25: the weekly aggregate conserves the totals: for every non-empty
\* table made by normalize (and every filtered part of one) it is produced
\* without error, and the sums over its buckets of distance, elevation,
\* duration and activity count are the sums and the number of the rows of
\* the table it was made from.
C25_WeeklyTotalsConserved ==
    (Returned("calculate_weekly_stats") /\ call.df # EmptyDataFrame) =>
        /\ result.kind = "table"
        /\ sum(result.table, "total_distance_km") = sum(call.df, "distance_km")
        /\ sum(result.table, "total_elevation_m") = sum(call.df, "elevation_m")
        /\ sum(result.table, "total_duration_min") = sum(call.df, "duration_min")
        /\ activities_counted(result.table) = Len(call.df)

====
